---- MODULE Spec2Model ----
(***************************************************************************)
(* Model of the file-storage bot (src/bot.py): debounced intake of upload  *)
(* messages, batch assembly, persistence in the `files` table, replication *)
(* to the channel, and the maintenance commands.                           *)
(*                                                                         *)
(* Text values are strings; the `file_id` column holds a token sequence    *)
(* (one token for a single file, the serialized list for a batch).         *)
(*                                                                         *)
(* Handlers run one at a time and to their end; a callback of the job      *)
(* queue runs from one await to the next, so its steps interleave with     *)
(* the handlers and with other callbacks.  Every sqlite call is            *)
(* synchronous and is part of the step that makes it.  Time is counted in  *)
(* the unit of the run_once delay; `since`, `submitted` and `inserts`      *)
(* record history and are read by the properties only.                     *)
(***************************************************************************)
EXTENDS Integers, Sequences, FiniteSets, TLC

\* ---------------------------------------------------------------- bounds
\* uploads handled in a run
MaxEvents == 2

\* uploads handled in a run of the specification of one owner's uploads
\* that arrive while an earlier batch is being replicated
MaxBurst == 3

\* ------------------------------------------------------ program constants
\* delay handed to run_once (seconds)
QUIET == 5

\* Python's None / SQL NULL for text and for integer columns
None == "<None>"
NULL == 0

BATCH_NAME == "batch_name"

\* ------------------------------------------------------------ input sets
Owners == {1, 2}
Chats == {10, 20}
Keys == {"Ab3dE6gH", "zY8xW5vU"}
Kinds == {"photo", "video", "document"}
FileNames == {None, "report.pdf"}
Captions == {None, "final"}
GroupIds == {None, "album"}
NewNotes == {"renamed"}

\* captions of the uploads of a burst
BurstCaptions == {None, "draft", "final"}

\* provider content references, one per upload message
FileIds == <<"f1", "f2", "f3", "f4", "f5">>

VARIABLES
    chat_data,   \* chat_data[c][u]: the list under key file_batch_<u> of chat c (<<>> = key absent)
    jobs,        \* jobs armed in the job queue
    since,       \* time elapsed since the owner's last upload, capped at QUIET + 1
    submitted,   \* every upload message handled so far, in handling order
    tasks,       \* executions of process_file_batch, in dispatch order
    files,       \* rows of table `files`
    lastrowid,   \* AUTOINCREMENT high-water mark of table `files`
    inserts,     \* rows as they were inserted, in commit order
    channel,     \* messages sent to the channel, in send order
    reply        \* last reply produced by a command handler

vars == <<chat_data, jobs, since, submitted, tasks, files, lastrowid, inserts, channel, reply>>

RECURSIVE SelectKinds(_, _)
\* [info for info in file_info_list if info['type'] in ks], order kept
SelectKinds(list, ks) ==
    IF list = <<>> THEN <<>>
    ELSE IF Head(list).type \in ks
         THEN <<Head(list)>> \o SelectKinds(Tail(list), ks)
         ELSE SelectKinds(Tail(list), ks)

Groupable == {"photo", "video"}

media_group_items(list) == SelectKinds(list, Groupable)

\* the documents taken last first
other_files_Reversed(list) ==
    LET others == SelectKinds(list, Kinds \ Groupable)
    IN  [n \in 1..Len(others) |-> others[Len(others) + 1 - n]]

other_files(list) == SelectKinds(list, Kinds \ Groupable)

\* random.choices(charset, k=8): any key of the alphabet can come out
generate_key == Keys

_extract_file_info(message) ==
    IF message.kind = "photo" THEN [type |-> "photo", id |-> message.file_id]
    ELSE IF message.kind = "video" THEN [type |-> "video", id |-> message.file_id]
    ELSE IF message.kind = "document" THEN [type |-> "document", id |-> message.file_id]
    ELSE [type |-> None, id |-> None]

RECURSIVE ExtractAll(_)
\* the loop of process_file_batch that fills file_info_list
ExtractAll(messages) ==
    IF messages = <<>> THEN <<>>
    ELSE LET info == _extract_file_info(Head(messages))
         IN  IF info.type # None
             THEN <<info>> \o ExtractAll(Tail(messages))
             ELSE ExtractAll(Tail(messages))

RECURSIVE json_dumps(_)
\* serialized ordered list of (type, id) pairs
json_dumps(list) ==
    IF list = <<>> THEN <<>>
    ELSE <<Head(list).type, Head(list).id>> \o json_dumps(Tail(list))

RECURSIVE json_loads(_)
json_loads(text) ==
    IF Len(text) < 2 THEN <<>>
    ELSE <<[type |-> text[1], id |-> text[2]]>> \o json_loads(SubSeq(text, 3, Len(text)))

RECURSIVE FirstCaption(_)
\* caption of the first message that has one, None when there is none
FirstCaption(messages) ==
    IF messages = <<>> THEN None
    ELSE IF Head(messages).caption # None THEN Head(messages).caption
    ELSE FirstCaption(Tail(messages))

DefaultNote(n) == "files(" \o ToString(n) \o ")"

\* a note that ignores the captions
group_note_NoCaption(messages) == DefaultNote(Len(messages))

group_note(messages) ==
    IF FirstCaption(messages) # None THEN FirstCaption(messages)
    ELSE DefaultNote(Len(messages))

is_media_group(messages) == \E i \in 1..Len(messages) : messages[i].media_group_id # None

\* getattr(getattr(message, file_type, None), 'file_name', default):
\* message.photo is a tuple of sizes and has no file_name attribute, so the
\* default is used; a Video or Document object has the attribute, whose
\* value is None when the upload carries no filename
original_name(message, file_type) ==
    IF file_type = "photo"
    THEN file_type \o "_" \o ToString(message.from_user)
    ELSE message.file_name

\* message.caption or original_name
single_note(message, oname) ==
    IF message.caption # None THEN message.caption ELSE oname

FullCaption(key, note) == "Key:" \o key \o " Note:" \o note

KeyCaption(key) == "Key:" \o key

\* caption_text_func of _send_batch_to_channel, read at call time
caption_text_func(key, note, caption_sent) ==
    IF ~caption_sent THEN FullCaption(key, note) ELSE KeyCaption(key)

\* caption given to an item of the media list
current_caption(key, note, caption_sent) ==
    IF ~caption_sent THEN FullCaption(key, note) ELSE ""

\* --------------------------------------------------------------- store
RowsByKey(rows, key) == {r \in rows : r.key = key}

\* the table without the UNIQUE constraint on key
InsertAccepted_NoUnique(rows, row) ==
    /\ row.key # None
    /\ row.original_name # None
    /\ row.custom_note # None
    /\ row.file_type # None

\* the constraints of CREATE TABLE files: key UNIQUE, text columns NOT NULL
InsertAccepted(rows, row) ==
    /\ RowsByKey(rows, row.key) = {}
    /\ row.key # None
    /\ row.original_name # None
    /\ row.custom_note # None
    /\ row.file_type # None

\* rowid of a table without AUTOINCREMENT: one more than the largest in use
NextRowId_MaxInUse(rows, high) ==
    IF rows = {} THEN 1
    ELSE (CHOOSE n \in {r.id : r \in rows} : \A r \in rows : r.id <= n) + 1

\* id INTEGER PRIMARY KEY AUTOINCREMENT: one more than the largest rowid the
\* table ever had
NextRowId(rows, high) == high + 1

NewRow(id, user_id, file_type, file_id, key, oname, note) ==
    [id |-> id, user_id |-> user_id, file_type |-> file_type, file_id |-> file_id,
     key |-> key, original_name |-> oname, custom_note |-> note, channel_msg_id |-> NULL]

\* UPDATE files SET channel_msg_id = ? WHERE id = ?
_update_channel_msg_id(rows, db_file_id, channel_msg_id) ==
    {IF r.id = db_file_id THEN [r EXCEPT !.channel_msg_id = channel_msg_id] ELSE r : r \in rows}

\* ---------------------------------------------------------------- init
NoReply == [user |-> 0, key |-> None, text |-> "none", lookup |-> FALSE, request |-> NULL, shown |-> <<>>]

Init ==
    /\ chat_data = [c \in Chats |-> [u \in Owners |-> <<>>]]
    /\ jobs = {}
    /\ since = [u \in Owners |-> QUIET + 1]
    /\ submitted = <<>>
    /\ tasks = <<>>
    /\ files = {}
    /\ lastrowid = 0
    /\ inserts = <<>>
    /\ channel = <<>>
    /\ reply = NoReply

\* -------------------------------------------------------------- intake
\* positions of process_file_batch at which it is suspended in a channel send
Sending == {"send_single", "send_group", "send_other"}

\* the Message object of an update accepted by the VIDEO | Document | PHOTO filter
Message(mid, u, c, kind, fname, cap, gid) ==
    [mid |-> mid, from_user |-> u, chat |-> c, kind |-> kind, file_id |-> FileIds[mid],
     file_name |-> IF kind = "photo" THEN None ELSE fname,
     caption |-> cap, media_group_id |-> gid, gap |-> since[u]]

\* one job name for all users
job_name_Shared(u) == 0

\* f"process_batch_{user_id}"
job_name(u) == u

handle_any_file(u, c, kind, fname, cap, gid) ==
    /\ LET msg == Message(Len(submitted) + 1, u, c, kind, fname, cap, gid)
       IN  /\ chat_data' = [chat_data EXCEPT ![c][u] = Append(@, msg)]
           /\ submitted' = Append(submitted, msg)
    /\ jobs' = {j \in jobs : j.name # job_name(u)}
                 \cup {[name |-> job_name(u), chat_id |-> c, user_id |-> u, remaining |-> QUIET]}
    /\ since' = [since EXCEPT ![u] = 0]
    /\ UNCHANGED <<tasks, files, lastrowid, inserts, channel, reply>>

\* the run still has uploads to deliver
Accepts(limit) == Len(submitted) < limit

\* d units of time pass; a job that is due runs before time moves on
Tick(d) ==
    /\ \A j \in jobs : j.remaining >= d
    /\ \A i \in 1..Len(tasks) : tasks[i].pc # "start"
    /\ \/ jobs # {}
       \/ \E u \in Owners : since[u] <= QUIET
    /\ jobs' = {[j EXCEPT !.remaining = @ - d] : j \in jobs}
    /\ since' = [u \in Owners |-> IF since[u] + d <= QUIET THEN since[u] + d ELSE QUIET + 1]
    /\ UNCHANGED <<chat_data, submitted, tasks, files, lastrowid, inserts, channel, reply>>

NewTask(j) ==
    [user_id |-> j.user_id, chat_id |-> j.chat_id, pc |-> "start", messages |-> <<>>,
     file_type |-> None, key |-> None, note |-> None, file_info_list |-> <<>>,
     db_file_id |-> NULL, caption_sent |-> FALSE, next_other |-> 1,
     insert |-> "none", fault |-> FALSE, collided |-> FALSE, raised |-> FALSE,
     outcome |-> "none"]

\* the job queue takes a due job out of the queue and starts its callback
RunJob(j) ==
    /\ j \in jobs
    /\ j.remaining = 0
    /\ jobs' = jobs \ {j}
    /\ tasks' = Append(tasks, NewTask(j))
    /\ UNCHANGED <<chat_data, since, submitted, files, lastrowid, inserts, channel, reply>>

\* ------------------------------------------------- process_file_batch
SetTask(i, t) == tasks' = [tasks EXCEPT ![i] = t]

Finish(t, outcome) == [t EXCEPT !.pc = "done", !.outcome = outcome]

\* first statement after a successful insert of a batch: the media group
\* when there is one, else the first document
FirstSend(list) == IF media_group_items(list) # <<>> THEN "send_group" ELSE "send_other"

\* a callback that goes on to the channel send whatever the INSERT did
AfterInsert_NoReturn(t, accepted, id, next) ==
    IF accepted
    THEN [t EXCEPT !.insert = "ok", !.db_file_id = id, !.pc = next]
    ELSE [t EXCEPT !.insert = "rejected", !.pc = next]

\* what follows the INSERT: on success the callback goes on to the channel
\* send, on an sqlite error it tells the owner the save failed and returns
AfterInsert(t, accepted, id, next) ==
    IF accepted
    THEN [t EXCEPT !.insert = "ok", !.db_file_id = id, !.pc = next]
    ELSE Finish([t EXCEPT !.insert = "rejected"], "save_failed")

\* the INSERT statement with lastrowid and commit
Insert(i, t, row, healthy, next) ==
    LET accepted == healthy /\ InsertAccepted(files, row)
    IN  /\ files' = IF accepted THEN files \cup {row} ELSE files
        /\ lastrowid' = IF accepted THEN row.id ELSE lastrowid
        /\ inserts' = IF accepted THEN Append(inserts, row) ELSE inserts
        /\ SetTask(i, AfterInsert([t EXCEPT !.fault = ~healthy,
                                             !.collided = RowsByKey(files, row.key) # {}],
                                   accepted, row.id, next))

\* process_file_batch from its start to the first await; `healthy` is
\* false when sqlite raises an error that is not a constraint violation
process_file_batch(i, key, healthy) ==
    /\ i \in 1..Len(tasks)
    /\ tasks[i].pc = "start"
    /\ LET t == tasks[i]
           messages == chat_data[t.chat_id][t.user_id]
           id == NextRowId(files, lastrowid)
       IN  /\ chat_data' = [chat_data EXCEPT ![t.chat_id][t.user_id] = <<>>]
           /\ IF messages = <<>>
              THEN /\ SetTask(i, Finish(t, "empty"))
                   /\ UNCHANGED <<files, lastrowid, inserts>>
              ELSE IF Len(messages) = 1 /\ ~is_media_group(messages)
              THEN \* _handle_single_file up to the channel send
                   LET message == messages[1]
                       file_info == _extract_file_info(message)
                       oname == original_name(message, file_info.type)
                       note == single_note(message, oname)
                       row == NewRow(id, message.from_user, file_info.type, <<file_info.id>>, key, oname, note)
                       t1 == [t EXCEPT !.messages = messages, !.file_type = file_info.type,
                                       !.key = key, !.note = note, !.file_info_list = <<file_info>>]
                   IN  IF file_info.type = None
                       THEN /\ SetTask(i, Finish([t EXCEPT !.messages = messages], "no_files"))
                            /\ UNCHANGED <<files, lastrowid, inserts>>
                       ELSE Insert(i, t1, row, healthy, "send_single")
              ELSE LET file_info_list == ExtractAll(messages)
                       note == group_note(messages)
                       row == NewRow(id, t.user_id, "batch", json_dumps(file_info_list), key, BATCH_NAME, note)
                       t1 == [t EXCEPT !.messages = messages, !.file_type = "batch",
                                       !.key = key, !.note = note, !.file_info_list = file_info_list]
                   IN  IF file_info_list = <<>>
                       THEN /\ SetTask(i, Finish([t EXCEPT !.messages = messages], "no_files"))
                            /\ UNCHANGED <<files, lastrowid, inserts>>
                       ELSE Insert(i, t1, row, healthy, FirstSend(file_info_list))
    /\ UNCHANGED <<jobs, since, submitted, channel, reply>>

\* ------------------------------------------------------------- channel
ChannelMsg(message_id, artifact, info, caption) ==
    [message_id |-> message_id, artifact |-> artifact, type |-> info.type, file |-> info.id,
     caption |-> caption, deleted |-> FALSE]

RECURSIVE MediaList(_, _, _, _)
\* the loop that builds media_list: the caption goes to the first item only
MediaList(items, key, note, caption_sent) ==
    IF items = <<>> THEN <<>>
    ELSE <<[type |-> Head(items).type, id |-> Head(items).id,
            caption |-> current_caption(key, note, caption_sent)]>>
         \o MediaList(Tail(items), key, note, TRUE)

\* the messages send_media_group returns, numbered from `first`
GroupMessages(media_list, artifact, first) ==
    [n \in 1..Len(media_list) |->
        ChannelMsg(first + n - 1, artifact, media_list[n], media_list[n].caption)]

\* the write-back does nothing when sqlite raises (the error is only logged)
WriteBack(rows, db_file_id, channel_msg_id, healthy) ==
    IF healthy THEN _update_channel_msg_id(rows, db_file_id, channel_msg_id) ELSE rows

\* the channel failure reported to the owner as a failed save
ChannelFailed_AsError(t) == Finish([t EXCEPT !.raised = TRUE], "save_failed")

\* the except branch around the channel send: the owner is told that the
\* file is stored but the channel notice failed
ChannelFailed(t) == Finish([t EXCEPT !.raised = TRUE], "stored_channel_failed")

\* a write-back after every document message
needs_writeback_Always(caption_sent) == TRUE

\* `if not caption_sent` in front of the write-back of a document message
needs_writeback(caption_sent) == ~caption_sent

\* _handle_single_file from the channel send to its end
SendSingle(i, ok, healthy) ==
    /\ i \in 1..Len(tasks)
    /\ tasks[i].pc = "send_single"
    /\ LET t == tasks[i]
           message_id == Len(channel) + 1
       IN  IF ok
           THEN /\ channel' = Append(channel, ChannelMsg(message_id, t.db_file_id, t.file_info_list[1],
                                                         FullCaption(t.key, t.note)))
                /\ files' = WriteBack(files, t.db_file_id, message_id, healthy)
                /\ SetTask(i, Finish(t, "stored"))
           ELSE /\ SetTask(i, ChannelFailed(t))
                /\ UNCHANGED <<channel, files>>
    /\ UNCHANGED <<chat_data, jobs, since, submitted, lastrowid, inserts, reply>>

\* _send_batch_to_channel: the media group, then what process_file_batch
\* does when nothing is left to send or when the send raised
SendGroup(i, ok, healthy) ==
    /\ i \in 1..Len(tasks)
    /\ tasks[i].pc = "send_group"
    /\ LET t == tasks[i]
           media_list == MediaList(media_group_items(t.file_info_list), t.key, t.note, t.caption_sent)
           channel_messages == GroupMessages(media_list, t.db_file_id, Len(channel) + 1)
           t1 == [t EXCEPT !.caption_sent = TRUE]
       IN  IF ok
           THEN /\ channel' = channel \o channel_messages
                /\ files' = WriteBack(files, t.db_file_id, channel_messages[1].message_id, healthy)
                /\ IF other_files(t.file_info_list) = <<>>
                   THEN SetTask(i, Finish(t1, "stored"))
                   ELSE SetTask(i, [t1 EXCEPT !.pc = "send_other"])
           ELSE /\ SetTask(i, ChannelFailed(t1))
                /\ UNCHANGED <<channel, files>>
    /\ UNCHANGED <<chat_data, jobs, since, submitted, lastrowid, inserts, reply>>

\* one iteration of the loop over other_files
SendOther(i, ok, healthy) ==
    /\ i \in 1..Len(tasks)
    /\ tasks[i].pc = "send_other"
    /\ LET t == tasks[i]
           others == other_files(t.file_info_list)
           item == others[t.next_other]
           message_id == Len(channel) + 1
           t1 == [t EXCEPT !.caption_sent = TRUE, !.next_other = @ + 1]
       IN  IF ok
           THEN /\ channel' = Append(channel, ChannelMsg(message_id, t.db_file_id, item,
                                                         caption_text_func(t.key, t.note, t.caption_sent)))
                /\ files' = IF needs_writeback(t.caption_sent)
                            THEN WriteBack(files, t.db_file_id, message_id, healthy)
                            ELSE files
                /\ IF t.next_other = Len(others)
                   THEN SetTask(i, Finish(t1, "stored"))
                   ELSE SetTask(i, t1)
           ELSE /\ SetTask(i, ChannelFailed(t))
                /\ UNCHANGED <<channel, files>>
    /\ UNCHANGED <<chat_data, jobs, since, submitted, lastrowid, inserts, reply>>

\* ------------------------------------------------------------ commands
EditCaption(msgs, message_id, caption) ==
    [n \in 1..Len(msgs) |->
        IF msgs[n].message_id = message_id THEN [msgs[n] EXCEPT !.caption = caption] ELSE msgs[n]]

\* a deletion that takes every message of the channel with it
DeleteMessage_All(msgs, message_id) ==
    [n \in 1..Len(msgs) |-> [msgs[n] EXCEPT !.deleted = TRUE]]

DeleteMessage(msgs, message_id) ==
    [n \in 1..Len(msgs) |->
        IF msgs[n].message_id = message_id THEN [msgs[n] EXCEPT !.deleted = TRUE] ELSE msgs[n]]

\* the UPDATE without its WHERE
SetNote_EveryRow(rows, db_file_id, new_note) ==
    {[r EXCEPT !.custom_note = new_note] : r \in rows}

\* UPDATE files SET custom_note = ? WHERE id = ?
SetNote(rows, db_file_id, new_note) ==
    {IF r.id = db_file_id THEN [r EXCEPT !.custom_note = new_note] ELSE r : r \in rows}

\* the SELECT without its `AND user_id = ?`
OwnedRows_AnyUser(rows, key, user_id) == {r \in rows : r.key = key}

\* SELECT ... FROM files WHERE key = ? AND user_id = ?
OwnedRows(rows, key, user_id) == {r \in rows : r.key = key /\ r.user_id = user_id}

\* what a handler leaves behind: the table, the channel, the key it was given,
\* its answer, whether it ran a SELECT, the channel message it asked the
\* channel to edit or delete, and the artifacts it showed to the user
Outcome(rows, msgs, key, text, lookup, request, shown) ==
    [files |-> rows, channel |-> msgs, key |-> key, text |-> text,
     lookup |-> lookup, request |-> request, shown |-> shown]

\* the outcome of /update and /delete
Result(rows, msgs, key, text) ==
    Outcome(rows, msgs, key, text, text \notin {"update_format_error", "delete_format_error"}, NULL, <<>>)

Requested(res, message_id) == [res EXCEPT !.request = message_id]

\* /update <key> <note> on the table rows and the channel msgs: `healthy` is
\* false when sqlite raises, `ok` false when the channel refuses the edit
update_result(rows, msgs, user_id, args, healthy, ok) ==
    IF Len(args) < 2 THEN Result(rows, msgs, None, "update_format_error")
    ELSE LET key == args[1]
             new_note == args[2]
             file_data == OwnedRows(rows, key, user_id)
         IN  IF ~healthy THEN Result(rows, msgs, key, "update_failed")
             ELSE IF file_data = {} THEN Result(rows, msgs, key, "update_not_found_or_not_owner")
             ELSE LET row == CHOOSE r \in file_data : TRUE
                  IN  Requested(
                          Result(SetNote(rows, row.id, new_note),
                                 IF row.channel_msg_id # NULL /\ row.file_type # "batch" /\ ok
                                 THEN EditCaption(msgs, row.channel_msg_id, FullCaption(key, new_note))
                                 ELSE msgs,
                                 key, "updated"),
                          IF row.file_type # "batch" THEN row.channel_msg_id ELSE NULL)

\* /delete <key>
delete_result(rows, msgs, user_id, args, healthy, ok) ==
    IF Len(args) # 1 THEN Result(rows, msgs, None, "delete_format_error")
    ELSE LET key == args[1]
             result == OwnedRows(rows, key, user_id)
         IN  IF ~healthy THEN Result(rows, msgs, key, "delete_failed")
             ELSE IF result = {} THEN Result(rows, msgs, key, "delete_not_found_or_not_owner")
             ELSE LET row == CHOOSE r \in result : TRUE
                  IN  Requested(
                          Result(rows \ OwnedRows(rows, key, user_id),
                                 IF row.channel_msg_id # NULL /\ ok
                                 THEN DeleteMessage(msgs, row.channel_msg_id)
                                 ELSE msgs,
                                 key, "deleted"),
                          row.channel_msg_id)

\* a command handler run to its end
Handle(user_id, res) ==
    /\ files' = res.files
    /\ channel' = res.channel
    /\ reply' = [user |-> user_id, key |-> res.key, text |-> res.text,
                 lookup |-> res.lookup, request |-> res.request, shown |-> res.shown]
    /\ UNCHANGED <<chat_data, jobs, since, submitted, tasks, lastrowid, inserts>>

\* ---------------------------------------------------- retrieval by key
\* string.ascii_letters + string.digits
Alphabet ==
    {"a", "b", "c", "d", "e", "f", "g", "h", "i", "j", "k", "l", "m",
     "n", "o", "p", "q", "r", "s", "t", "u", "v", "w", "x", "y", "z",
     "A", "B", "C", "D", "E", "F", "G", "H", "I", "J", "K", "L", "M",
     "N", "O", "P", "Q", "R", "S", "T", "U", "V", "W", "X", "Y", "Z",
     "0", "1", "2", "3", "4", "5", "6", "7", "8", "9"}

\* the texts users type, as the sequences of their characters
Typed ==
    {<<"A", "b", "3", "d", "E", "6", "g", "H">>,
     <<" ", "A", "b", "3", "d", "E", "6", "g", "H", " ">>,
     <<"z", "Y", "8", "x", "W", "5", "v", "U">>,
     <<"A", "b", "3", "d", "E", "6", "g">>,
     <<"A", "b", "3", "d", "E", "6", "g", "!">>,
     <<"A", "b", "3", "d", "E", "6", "g", "H", "9">>}

RECURSIVE Join(_)
\* the string made of a sequence of characters
Join(chars) == IF chars = <<>> THEN "" ELSE Head(chars) \o Join(Tail(chars))

\* the characters of a string a user can type
Characters(text) ==
    IF \E chars \in Typed : Join(chars) = text
    THEN CHOOSE chars \in Typed : Join(chars) = text
    ELSE <<>>

RECURSIVE lstrip(_)
lstrip(chars) ==
    IF chars # <<>> /\ Head(chars) = " " THEN lstrip(Tail(chars)) ELSE chars

RECURSIVE rstrip(_)
rstrip(chars) ==
    IF chars # <<>> /\ chars[Len(chars)] = " " THEN rstrip(SubSeq(chars, 1, Len(chars) - 1)) ELSE chars

\* str.strip()
strip(chars) == rstrip(lstrip(chars))

\* len(key) == 8 and all(c in (string.ascii_letters + string.digits) for c in key)
is_key_format(chars) ==
    /\ Len(chars) = 8
    /\ \A n \in 1..Len(chars) : chars[n] \in Alphabet

\* the items of a stored row in the order handle_key sends them
Delivery(row) ==
    IF row.file_type = "batch"
    THEN media_group_items(json_loads(row.file_id)) \o other_files(json_loads(row.file_id))
    ELSE <<[type |-> row.file_type, id |-> row.file_id[1]]>>

Shown(row, payload) == [key |-> row.key, note |-> row.custom_note, payload |-> payload]

\* a text message that is not a command: `healthy` is false when sqlite
\* raises (nothing catches it, the user gets no answer), `ok` false when
\* sending the file to the user fails
key_result(rows, msgs, chars, healthy, ok) ==
    LET key == Join(strip(chars))
        result == RowsByKey(rows, key)
    IN  IF ~is_key_format(strip(chars))
        THEN Outcome(rows, msgs, key, "key_format_error", FALSE, NULL, <<>>)
        ELSE IF ~healthy THEN Outcome(rows, msgs, key, "key_raised", TRUE, NULL, <<>>)
        ELSE IF result = {} THEN Outcome(rows, msgs, key, "key_not_found", TRUE, NULL, <<>>)
        ELSE LET row == CHOOSE r \in result : TRUE
             IN  IF ok
                 THEN Outcome(rows, msgs, key, "file_sent", TRUE, NULL, <<Shown(row, Delivery(row))>>)
                 ELSE Outcome(rows, msgs, key, "file_fetch_failed", TRUE, NULL, <<>>)

RECURSIVE Listing(_)
\* SELECT key, custom_note ... ORDER BY id DESC
Listing(rows) ==
    IF rows = {} THEN <<>>
    ELSE LET row == CHOOSE r \in rows : \A q \in rows : q.id <= r.id
         IN  <<Shown(row, <<>>)>> \o Listing(rows \ {row})

\* /list
list_result(rows, msgs, user_id, healthy) ==
    LET mine == {r \in rows : r.user_id = user_id}
    IN  IF ~healthy THEN Outcome(rows, msgs, None, "list_failed", TRUE, NULL, <<>>)
        ELSE IF mine = {} THEN Outcome(rows, msgs, None, "list_empty", TRUE, NULL, <<>>)
        ELSE Outcome(rows, msgs, None, "listed", TRUE, NULL, Listing(mine))

handle_key(user_id, chars, healthy, ok) ==
    Handle(user_id, key_result(files, channel, chars, healthy, ok))

list_files(user_id, healthy) ==
    Handle(user_id, list_result(files, channel, user_id, healthy))

update_note(user_id, args, healthy, ok) ==
    Handle(user_id, update_result(files, channel, user_id, args, healthy, ok))

delete_key(user_id, args, healthy, ok) ==
    Handle(user_id, delete_result(files, channel, user_id, args, healthy, ok))

\* the timer, the job queue and the steps of process_file_batch; hs and oks
\* are the outcomes sqlite and the channel transport can have, ds the steps
\* in which time advances
Pipeline(hs, oks, ds) ==
    \/ \E d \in ds : Tick(d)
    \/ \E j \in jobs : RunJob(j)
    \/ \E i \in 1..Len(tasks), key \in generate_key, healthy \in hs :
          process_file_batch(i, key, healthy)
    \/ \E i \in 1..Len(tasks), ok \in oks, healthy \in hs : SendSingle(i, ok, healthy)
    \/ \E i \in 1..Len(tasks), ok \in oks, healthy \in hs : SendGroup(i, ok, healthy)
    \/ \E i \in 1..Len(tasks), ok \in oks, healthy \in hs : SendOther(i, ok, healthy)

\* uploads of two owners in two chats, sqlite and the channel healthy, time
\* advancing one unit at a time
Next ==
    \/ \E u \in Owners, c \in Chats, kind \in {"photo", "document"} :
          Accepts(MaxEvents) /\ handle_any_file(u, c, kind, "report.pdf", None, None)
    \/ Pipeline({TRUE}, {TRUE}, {1})

Spec == Init /\ [][Next]_vars

\* the same program when the process keeps running: time advances, the job
\* queue runs the jobs that are due, and a callback that is suspended is
\* resumed
SpecLive == Spec /\ WF_vars(Pipeline({TRUE}, {TRUE}, {1}))

\* /update and /delete typed by the users us with the arguments uargs, dargs
Commands(us, uargs, dargs, hs, oks) ==
    \/ \E u \in us, args \in uargs, healthy \in hs, ok \in oks : update_note(u, args, healthy, ok)
    \/ \E u \in us, args \in dargs, healthy \in hs, ok \in oks : delete_key(u, args, healthy, ok)

\* uploads of two owners in one chat, sqlite unreliable, time advancing a
\* quiet period at a time
NextStore ==
    \/ \E u \in Owners, kind \in {"photo", "document"} :
          Accepts(MaxEvents) /\ handle_any_file(u, 10, kind, "report.pdf", None, None)
    \/ Pipeline(BOOLEAN, {TRUE}, {QUIET})

SpecStore == Init /\ [][NextStore]_vars

\* uploads of owner 1 in one chat, sqlite and the channel both unreliable
NextChannel ==
    \/ \E kind \in {"photo", "document"} :
          Accepts(MaxEvents) /\ handle_any_file(1, 10, kind, "report.pdf", None, None)
    \/ Pipeline(BOOLEAN, BOOLEAN, {QUIET})

SpecChannel == Init /\ [][NextChannel]_vars

\* uploads of owner 1 in one chat while both users type /update and /delete
\* with one of the keys; the channel may refuse the edit and the deletion
NextCmd ==
    \/ \E kind \in {"photo", "document"} :
          Accepts(MaxEvents) /\ handle_any_file(1, 10, kind, "report.pdf", None, None)
    \/ Pipeline({TRUE}, {TRUE}, {QUIET})
    \/ Commands(Owners, {<<"Ab3dE6gH", "renamed">>}, {<<"Ab3dE6gH">>}, {TRUE}, BOOLEAN)

SpecCmd == Init /\ [][NextCmd]_vars

\* uploads of owner 1 in one chat while the owner types /delete with one of
\* the keys; the channel may refuse the deletion
NextDelete ==
    \/ \E kind \in {"photo", "document"} :
          Accepts(MaxEvents) /\ handle_any_file(1, 10, kind, "report.pdf", None, None)
    \/ Pipeline({TRUE}, {TRUE}, {QUIET})
    \/ \E ok \in BOOLEAN : delete_key(1, <<"Ab3dE6gH">>, TRUE, ok)

SpecDelete == Init /\ [][NextDelete]_vars

\* a single upload of any kind, with or without filename, caption and album
\* id, sqlite and the channel both unreliable
NextSingle ==
    \/ \E kind \in Kinds, fname \in FileNames, cap \in Captions, gid \in GroupIds :
          submitted = <<>> /\ handle_any_file(1, 10, kind, fname, cap, gid)
    \/ Pipeline(BOOLEAN, BOOLEAN, {1})

SpecSingle == Init /\ [][NextSingle]_vars

\* bursts of owner 1 in one chat, of photos and documents with and without
\* caption and album id, sqlite and the channel healthy
NextBatch ==
    \/ \E kind \in {"photo", "document"}, cap \in BurstCaptions, gid \in GroupIds :
          Accepts(MaxEvents) /\ handle_any_file(1, 10, kind, "report.pdf", cap, gid)
    \/ Pipeline({TRUE}, {TRUE}, {QUIET})

SpecBatch == Init /\ [][NextBatch]_vars

\* a key typed as a text message and /list
Queries(us, texts, hs, oks) ==
    \/ \E u \in us, chars \in texts, healthy \in hs, ok \in oks : handle_key(u, chars, healthy, ok)
    \/ \E u \in us, healthy \in hs : list_files(u, healthy)

\* the typed texts without blanks, which /update and /delete get as args[0]
TypedKeys == {Join(chars) : chars \in {t \in Typed : strip(t) = t}}

\* uploads of owner 1 in one chat while the owner sends well-formed and
\* malformed keys as text messages, to /update and to /delete
NextKeys ==
    \/ \E kind \in {"photo", "document"} :
          Accepts(MaxEvents) /\ handle_any_file(1, 10, kind, "report.pdf", None, None)
    \/ Pipeline({TRUE}, {TRUE}, {QUIET})
    \/ Queries({1}, Typed, {TRUE}, {TRUE})
    \/ Commands({1}, {<<key, note>> : key \in TypedKeys, note \in NewNotes},
                {<<key>> : key \in TypedKeys}, {TRUE}, {TRUE})

SpecKeys == Init /\ [][NextKeys]_vars

\* uploads of owner 1 in one chat while both users retrieve one of the keys,
\* list their files and rename the key; sending the file to the user may fail
NextRead ==
    \/ \E kind \in {"photo", "document"} :
          Accepts(MaxEvents) /\ handle_any_file(1, 10, kind, "report.pdf", None, None)
    \/ Pipeline({TRUE}, {TRUE}, {QUIET})
    \/ Queries(Owners, {<<"A", "b", "3", "d", "E", "6", "g", "H">>}, {TRUE}, BOOLEAN)
    \/ \E u \in Owners : update_note(u, <<"Ab3dE6gH", "renamed">>, TRUE, TRUE)

SpecRead == Init /\ [][NextRead]_vars

\* uploads of owner 1 in two chats, some of them sent while the callback of
\* an earlier one is suspended in its channel send
NextInflight ==
    \/ \E c \in Chats, kind \in {"photo", "document"} :
          Accepts(MaxBurst) /\ handle_any_file(1, c, kind, "report.pdf", None, None)
    \/ Pipeline({TRUE}, {TRUE}, {QUIET})

SpecInflight == Init /\ [][NextInflight]_vars

\* ======================================================= shared notions
\* the (type, id) pairs a stored row holds, in payload order
Payload(row) ==
    IF row.file_type = "batch" THEN json_loads(row.file_id)
    ELSE <<[type |-> row.file_type, id |-> row.file_id[1]]>>

PairOf(message) == [type |-> message.kind, id |-> message.file_id]

\* upload message number a is in the payload committed by insert number n
Holds(n, a) == \E p \in 1..Len(Payload(inserts[n])) : Payload(inserts[n])[p] = PairOf(submitted[a])

\* a and b are uploads of one owner with no upload of that owner in between
Consecutive(a, b) ==
    /\ a < b
    /\ submitted[a].from_user = submitted[b].from_user
    /\ \A k \in (a + 1)..(b - 1) : submitted[k].from_user # submitted[a].from_user

\* the uploads of the owner of a that are linked to a by gaps shorter than
\* the quiet period
BurstOf(a) ==
    {b \in 1..Len(submitted) :
        /\ submitted[b].from_user = submitted[a].from_user
        /\ \A k \in 1..Len(submitted) :
              (k > a \/ k > b) /\ (k <= a \/ k <= b) /\ submitted[k].from_user = submitted[a].from_user
                 => submitted[k].gap < QUIET}

\* the burst of a is separated from the owner's other uploads by more than
\* the quiet period
Isolated(a) ==
    \A k \in 1..Len(submitted) :
        submitted[k].from_user = submitted[a].from_user /\ k \notin BurstOf(a)
           => \A b \in BurstOf(a) : (Consecutive(b, k) => submitted[k].gap > QUIET)
                                 /\ (Consecutive(k, b) => submitted[b].gap > QUIET)

RECURSIVE PairsOf(_)
\* the pairs of a set of uploads in arrival order
PairsOf(S) ==
    IF S = {} THEN <<>>
    ELSE LET a == CHOOSE x \in S : \A y \in S : x <= y
         IN  <<PairOf(submitted[a])>> \o PairsOf(S \ {a})

\* every timer has fired and every callback has passed its insert
Settled ==
    /\ jobs = {}
    /\ \A i \in 1..Len(tasks) : tasks[i].pc # "start"

NoFault == \A i \in 1..Len(tasks) : ~tasks[i].fault

\* ================================================================== C1
\* C1: once the timers have fired, a burst of uploads of one owner whose
\* gaps are all shorter than the quiet period has, with a healthy store,
\* exactly one committed artifact, and its payload is the burst's pairs in
\* arrival order.
C1_OneArtifactPerBurst ==
    Settled /\ NoFault =>
        \A a \in 1..Len(submitted) :
            Isolated(a) =>
                /\ Cardinality({n \in 1..Len(inserts) : \E b \in BurstOf(a) : Holds(n, b)}) = 1
                /\ \E n \in 1..Len(inserts) : Payload(inserts[n]) = PairsOf(BurstOf(a))

\* ================================================================== C2
\* C2 (timer part): an upload leaves exactly one armed timer for its owner,
\* the one it arms with the full quiet period, and a callback only starts
\* from a timer that was armed and due.
C2_Rearm ==
    /\ Len(submitted') > Len(submitted) =>
          LET m == submitted'[Len(submitted')]
          IN  {j \in jobs' : j.name = job_name(m.from_user)}
                 = {[name |-> job_name(m.from_user), chat_id |-> m.chat,
                     user_id |-> m.from_user, remaining |-> QUIET]}
    /\ Len(tasks') > Len(tasks) =>
          \E j \in jobs : /\ j.remaining = 0
                          /\ j \notin jobs'
                          /\ tasks'[Len(tasks')].user_id = j.user_id

\* C2 (commit part): consecutive uploads of an owner less than the quiet
\* period apart are never split between commits, and consecutive uploads
\* more than the quiet period apart are never in the same commit.
C2_Boundaries ==
    \A a, b \in 1..Len(submitted) :
        Consecutive(a, b) =>
            \A n \in 1..Len(inserts) :
                /\ submitted[b].gap < QUIET => (Holds(n, a) <=> Holds(n, b))
                /\ submitted[b].gap > QUIET => ~(Holds(n, a) /\ Holds(n, b))

\* C2: trailing debounce for one owner.
C2_TrailingDebounce == []C2_Boundaries /\ [][C2_Rearm]_vars

C2_GapBoundary ==
    \A a, b \in 1..Len(submitted) :
        Consecutive(a, b) /\ submitted[b].gap > QUIET =>
            \A n \in 1..Len(inserts) : ~(Holds(n, a) /\ Holds(n, b))

\* ================================================================== C3
\* the positions in the channel log of the messages sent for an artifact
MessagesOf(db_file_id) == {n \in 1..Len(channel) : channel[n].artifact = db_file_id}

Mixed(list) == media_group_items(list) # <<>> /\ other_files(list) # <<>>

\* C3: of the messages sent for a batch that has a groupable and a
\* singleton item, the first one carries a caption and no later one does.
C3_CaptionOnce ==
    \A i \in 1..Len(tasks) :
        tasks[i].file_type = "batch" /\ Mixed(tasks[i].file_info_list) =>
            \A n \in MessagesOf(tasks[i].db_file_id) :
                (channel[n].caption # "") <=> (\A m \in MessagesOf(tasks[i].db_file_id) : n <= m)

\* ================================================================== C4
\* the row of the table that task t inserted, if it is still there
RowOf(t) == {r \in files : r.id = t.db_file_id}

FirstMessageOf(db_file_id) == CHOOSE n \in MessagesOf(db_file_id) : \A m \in MessagesOf(db_file_id) : n <= m

\* a channel send of task number i raises in this step
SendRaises(i) == i \in 1..Len(tasks) /\ ~tasks[i].raised /\ tasks'[i].raised

\* C4 as stated: after a failed replication the artifact is stored under its
\* key with channel_ref unset and the owner has the degraded-success notice.
C4_FailedSendLeavesRefUnset ==
    \A i \in 1..Len(tasks) :
        tasks[i].raised =>
            /\ tasks[i].outcome = "stored_channel_failed"
            /\ \E r \in RowOf(tasks[i]) :
                  /\ RowsByKey(files, tasks[i].key) = {r}
                  /\ r.channel_msg_id = NULL

\* C4 amended (state part): the artifact is stored under its key with its
\* payload, the owner has the degraded-success notice, and channel_ref is
\* unset when no message of the artifact was sent, else unset or the
\* identifier of its first message.
C4_FailedSendKeepsArtifact ==
    \A i \in 1..Len(tasks) :
        tasks[i].raised =>
            /\ tasks[i].outcome = "stored_channel_failed"
            /\ \E r \in RowOf(tasks[i]) :
                  /\ RowsByKey(files, tasks[i].key) = {r}
                  /\ Payload(r) = tasks[i].file_info_list
                  /\ IF MessagesOf(r.id) = {}
                     THEN r.channel_msg_id = NULL
                     ELSE r.channel_msg_id \in {NULL, channel[FirstMessageOf(r.id)].message_id}

\* C4 amended (step part): the step in which the send raises changes no
\* row and retracts no message.
C4_NothingRolledBack ==
    \A i \in 1..Len(tasks) : SendRaises(i) => files' = files /\ channel' = channel

\* C4 amended: replication failure after persistence.
C4_DegradedSuccess == []C4_FailedSendKeepsArtifact /\ [][C4_NothingRolledBack]_vars

\* a document send raised after the media group of the same batch went out
\* and was written back
C4_Witness ==
    \E i \in 1..Len(tasks) :
        /\ tasks[i].raised
        /\ MessagesOf(tasks[i].db_file_id) # {}
        /\ \E r \in RowOf(tasks[i]) : r.channel_msg_id # NULL

\* ================================================================== C5
\* C5 as stated: a callback whose key is already taken, the store being
\* healthy, still commits its artifact and does not report a failed save.
C5_CollisionRetried ==
    \A i \in 1..Len(tasks) :
        tasks[i].collided /\ ~tasks[i].fault =>
            /\ tasks[i].insert = "ok"
            /\ tasks[i].outcome # "save_failed"

\* ================================================================== C6
\* C6 (state part): no two rows of the table have the same key.
C6_UniqueKeys == \A r1, r2 \in files : r1.key = r2.key => r1 = r2

\* C6 (step part): a row that stays in the table keeps its key.
C6_KeyImmutable == \A r1 \in files, r2 \in files' : r1.id = r2.id => r1.key = r2.key

\* C6: keys are unique among the stored rows and never change.
C6_KeyUniqueness == []C6_UniqueKeys /\ [][C6_KeyImmutable]_vars

\* the callback of one owner drew the key of a stored row of another owner
C6_Witness ==
    \E i \in 1..Len(tasks) :
        /\ tasks[i].collided
        /\ ~tasks[i].fault
        /\ \E r \in files : r.key = tasks[i].key /\ r.user_id # tasks[i].user_id

\* ================================================================== C8
FilesOf(t) == {t.messages[n].file_id : n \in 1..Len(t.messages)}

\* C8: when the INSERT of a callback is rejected, the owner is told the save
\* failed, no row holds any of its uploads and no channel message carries
\* one.
C8_FailedSaveSendsNothing ==
    \A i \in 1..Len(tasks) :
        tasks[i].insert = "rejected" =>
            /\ tasks[i].outcome = "save_failed"
            /\ \A n \in 1..Len(channel) : channel[n].file \notin FilesOf(tasks[i])
            /\ \A r \in files : \A p \in 1..Len(Payload(r)) : Payload(r)[p].id \notin FilesOf(tasks[i])
            /\ \A n \in 1..Len(inserts) :
                  \A p \in 1..Len(Payload(inserts[n])) : Payload(inserts[n])[p].id \notin FilesOf(tasks[i])

\* the INSERT of a callback was rejected for a taken key while the channel
\* already carries the message of the artifact that holds the key
C8_Witness ==
    \E i \in 1..Len(tasks) :
        /\ tasks[i].insert = "rejected"
        /\ tasks[i].collided
        /\ tasks[i].pc = "done"
        /\ channel # <<>>

\* the rejected INSERT of the batch path
C8_BatchRejected ==
    \E i \in 1..Len(tasks) :
        tasks[i].insert = "rejected" /\ tasks[i].file_type = "batch" /\ tasks[i].pc = "done"

\* ================================================================== C7
\* key k is the key of a stored row and user u owns no row with that key
NotOwner(u, k) ==
    /\ \E r \in files : r.key = k
    /\ \A r \in files : r.key = k => r.user_id # u

Denied == {"update_not_found_or_not_owner", "delete_not_found_or_not_owner",
           "update_failed", "delete_failed"}

\* C7 (state part): in the current table, /update and /delete by a user who
\* does not own the key change nothing and answer exactly as they answer
\* when the table has no row with that key.
C7_SameAsMissing ==
    \A u \in Owners, k \in Keys, h \in BOOLEAN, ok \in BOOLEAN :
        NotOwner(u, k) =>
            LET missing == files \ RowsByKey(files, k)
            IN  /\ \A n \in NewNotes :
                      LET here == update_result(files, channel, u, <<k, n>>, h, ok)
                          there == update_result(missing, channel, u, <<k, n>>, h, ok)
                      IN  here.files = files /\ here.channel = channel /\ here.text = there.text
                /\ LET here == delete_result(files, channel, u, <<k>>, h, ok)
                       there == delete_result(missing, channel, u, <<k>>, h, ok)
                   IN  here.files = files /\ here.channel = channel /\ here.text = there.text

\* C7 (step part): a command answered to a user who does not own the key
\* it names fails and leaves the table and the channel as they were.
C7_NoEffect ==
    reply' # reply /\ NotOwner(reply'.user, reply'.key) =>
        /\ reply'.text \in Denied
        /\ files' = files
        /\ channel' = channel

\* C7: rename and delete by a non-owner.
C7_Ownership == []C7_SameAsMissing /\ [][C7_NoEffect]_vars

\* user 2 was just refused the deletion of a row that its owner had renamed
C7_Witness ==
    /\ reply.user = 2
    /\ reply.text = "delete_not_found_or_not_owner"
    /\ \E r \in files : /\ r.key = reply.key
                        /\ r.user_id = 1
                        /\ r.custom_note = "renamed"
                        /\ r.channel_msg_id # NULL

\* ================================================================== C9
\* the item of a payload whose message is sent first
HeadItem(list) == IF media_group_items(list) # <<>> THEN media_group_items(list)[1] ELSE list[1]

\* C9 (state part): a channel_ref that is set is the identifier of the first
\* message sent for the artifact, which carries the head of the media group
\* when the artifact has a groupable item and else its first document.
C9_RefIsFirstMessage ==
    \A r \in files :
        r.channel_msg_id # NULL =>
            /\ MessagesOf(r.id) # {}
            /\ channel[FirstMessageOf(r.id)].message_id = r.channel_msg_id
            /\ channel[FirstMessageOf(r.id)].file = HeadItem(Payload(r)).id

\* C9 (step part): a channel_ref that is set stays as it is while the row
\* is in the table.
C9_RefWriteOnce ==
    \A r1 \in files, r2 \in files' :
        r1.id = r2.id /\ r1.channel_msg_id # NULL => r2.channel_msg_id = r1.channel_msg_id

\* C9: channel_ref is the first message of the artifact and is write-once.
C9_ChannelRef == []C9_RefIsFirstMessage /\ [][C9_RefWriteOnce]_vars

\* a renamed batch whose document went out after its media group
C9_Witness ==
    \E r \in files :
        /\ r.file_type = "batch"
        /\ r.custom_note = "renamed"
        /\ r.channel_msg_id # NULL
        /\ \E n \in MessagesOf(r.id) :
              channel[n].type = "document" /\ channel[n].message_id # r.channel_msg_id

\* ================================================================= C10
\* the display name the claim gives an upload
ClaimedName(m) ==
    IF m.file_name # None THEN m.file_name ELSE m.kind \o "_" \o ToString(m.from_user)

ClaimedNote(m) == IF m.caption # None THEN m.caption ELSE ClaimedName(m)

\* C10: a callback that found exactly one upload without album id has, with
\* a healthy store, inserted exactly one row of the upload's kind whose
\* original_name is the filename or else the synthesized name and whose note
\* is the caption or else that original_name.
C10_SingleStored ==
    \A i \in 1..Len(tasks) :
        /\ tasks[i].pc # "start"
        /\ Len(tasks[i].messages) = 1
        /\ tasks[i].messages[1].media_group_id = None
        /\ ~tasks[i].fault
        => LET m == tasks[i].messages[1]
               rows == {n \in 1..Len(inserts) : inserts[n].file_id = <<m.file_id>>}
           IN  /\ Cardinality(rows) = 1
               /\ \A n \in rows :
                     /\ inserts[n].file_type = m.kind
                     /\ inserts[n].user_id = m.from_user
                     /\ inserts[n].original_name = ClaimedName(m)
                     /\ inserts[n].custom_note = ClaimedNote(m)

\* ================================================================= C11
\* the pairs of a list of upload messages, in list order
PairsOfMessages(messages) == [k \in 1..Len(messages) |-> PairOf(messages[k])]

Captioned(messages) == {k \in 1..Len(messages) : messages[k].caption # None}

\* C11: the row a callback inserted for the buffer it detached is a batch
\* exactly when the buffer has more than one upload or its only upload has an
\* album id; the payload of a batch is the pairs of the buffer in arrival
\* order, and its note is the caption of the first upload that has one, or,
\* when none has, the default note counting the pairs of the payload.
C11_BatchAssembly ==
    \A i \in 1..Len(tasks) :
        tasks[i].insert = "ok" =>
            \E n \in 1..Len(inserts) :
                /\ inserts[n].id = tasks[i].db_file_id
                /\ LET row == inserts[n]
                       messages == tasks[i].messages
                   IN  /\ row.file_type = "batch"
                             <=> (Len(messages) > 1 \/ messages[1].media_group_id # None)
                       /\ row.file_type = "batch" =>
                             /\ Payload(row) = PairsOfMessages(messages)
                             /\ IF Captioned(messages) # {}
                                THEN \E k \in Captioned(messages) :
                                        /\ \A q \in Captioned(messages) : k <= q
                                        /\ row.custom_note = messages[k].caption
                                ELSE row.custom_note = DefaultNote(Len(Payload(row)))

\* a stored batch of two uploads whose note is the caption of the second,
\* the first having none
C11_Witness ==
    \E i \in 1..Len(tasks) :
        /\ tasks[i].insert = "ok"
        /\ tasks[i].file_type = "batch"
        /\ Len(tasks[i].messages) = 2
        /\ tasks[i].messages[1].caption = None
        /\ tasks[i].messages[2].caption = "final"
        /\ \E r \in files : r.id = tasks[i].db_file_id /\ r.custom_note = "final"

\* a stored batch made of one upload that has an album id and no caption
C11_LoneAlbumItem ==
    \E i \in 1..Len(tasks) :
        /\ tasks[i].insert = "ok"
        /\ tasks[i].file_type = "batch"
        /\ Len(tasks[i].messages) = 1
        /\ \E r \in files : r.id = tasks[i].db_file_id /\ r.custom_note = DefaultNote(1)

\* ================================================================= C12
\* the callbacks whose detached buffer holds upload number a
HandedTo(a) ==
    {i \in 1..Len(tasks) : \E k \in 1..Len(tasks[i].messages) : tasks[i].messages[k].mid = a}

\* C12 (progress part): every upload that was buffered is eventually in the
\* buffer a callback detached.
C12_EventuallyHanded ==
    \A a \in 1..MaxEvents : [](Len(submitted) >= a => <>(HandedTo(a) # {}))

\* C12 (safety part): no upload is in the detached buffers of two callbacks
\* or twice in one.
C12_AtMostOnce ==
    \A a \in 1..Len(submitted) :
        /\ Cardinality(HandedTo(a)) <= 1
        /\ \A i \in HandedTo(a) :
              Cardinality({k \in 1..Len(tasks[i].messages) : tasks[i].messages[k].mid = a}) = 1

\* C12: with timers firing fairly every buffered upload is handed to the
\* batch assembler, exactly once, whatever the chats its owner uploads in.
C12_HandedOverOnce == C12_EventuallyHanded /\ []C12_AtMostOnce

\* ================================================================= C13
\* the order the claim gives the items of a payload on the channel
EmissionPlan(list) == SelectKinds(list, {"photo", "video"}) \o SelectKinds(list, {"document"})

\* the channel messages of an artifact, in send order
SentFor(msgs, db_file_id) == SelectSeq(msgs, LAMBDA m : m.artifact = db_file_id)

\* C13 (state part): the messages sent for an artifact carry, in send order,
\* the first items of its emission plan, one message per item; the groupable
\* items are on the channel all or none; no message was deleted; a callback
\* whose send raised has stopped.
C13_PlanPrefix ==
    \A i \in 1..Len(tasks) :
        tasks[i].insert = "ok" =>
            LET sent == SentFor(channel, tasks[i].db_file_id)
                plan == EmissionPlan(tasks[i].file_info_list)
            IN  /\ Len(sent) <= Len(plan)
                /\ \A n \in 1..Len(sent) :
                      /\ n <= Len(plan)
                      /\ sent[n].file = plan[n].id
                      /\ sent[n].type = plan[n].type
                      /\ ~sent[n].deleted
                /\ Len(sent) = 0 \/ Len(sent) >= Len(SelectKinds(plan, {"photo", "video"}))
                /\ tasks[i].raised => tasks[i].pc = "done" /\ Len(sent) < Len(plan)

\* C13 (step part): the channel log only grows, by the groupable items of
\* one artifact in one step or else by one message, and never by a message
\* of an artifact whose send has raised.
C13_NoSendAfterRaise ==
    /\ Len(channel') >= Len(channel)
    /\ SubSeq(channel', 1, Len(channel)) = channel
    /\ \A i \in 1..Len(tasks) :
          LET grown == Len(SentFor(channel', tasks[i].db_file_id)) - Len(SentFor(channel, tasks[i].db_file_id))
          IN  /\ tasks[i].raised \/ tasks[i].pc = "done" => grown = 0
              /\ tasks[i].insert = "ok" /\ grown > 0 =>
                    /\ Len(channel') - Len(channel) = grown
                    /\ grown = 1 \/ (tasks[i].pc = "send_group"
                                      /\ grown = Len(SelectKinds(tasks[i].file_info_list, {"photo", "video"})))

\* C13: emission order and at-most-once replication.
C13_Replication == []C13_PlanPrefix /\ [][C13_NoSendAfterRaise]_vars

\* a batch uploaded as document then photo: the photo went out first and the
\* send of the document raised
C13_Witness ==
    \E i \in 1..Len(tasks) :
        /\ tasks[i].raised
        /\ Len(tasks[i].file_info_list) = 2
        /\ tasks[i].file_info_list[1].type = "document"
        /\ tasks[i].file_info_list[2].type = "photo"
        /\ Len(SentFor(channel, tasks[i].db_file_id)) = 1
        /\ SentFor(channel, tasks[i].db_file_id)[1].type = "photo"

\* the two documents of a batch are on the channel in payload order
C13_TwoDocuments ==
    \E i \in 1..Len(tasks) :
        /\ tasks[i].outcome = "stored"
        /\ Len(tasks[i].file_info_list) = 2
        /\ tasks[i].file_info_list[1].type = "document"
        /\ tasks[i].file_info_list[2].type = "document"
        /\ Len(SentFor(channel, tasks[i].db_file_id)) = 2

\* ================================================================= C14
FormatErrors == {"key_format_error", "update_format_error", "delete_format_error"}

\* C14: a handler that was given a key that is not 8 characters of
\* [A-Za-z0-9] answers with a format error and runs no SELECT.
C14_MalformedKeyRejected ==
    reply.key # None /\ ~is_key_format(Characters(reply.key)) =>
        /\ ~reply.lookup
        /\ reply.text \in FormatErrors

\* C14 for retrieval alone, where it holds: handle_key answers a malformed
\* key with the format error before it opens the database.
C14_RetrievalValidates ==
    reply.text \in {"key_format_error", "key_not_found", "file_sent", "file_fetch_failed"} =>
        /\ reply.lookup <=> is_key_format(Characters(reply.key))
        /\ reply.text = "key_format_error" <=> ~is_key_format(Characters(reply.key))

\* ================================================================= C15
\* the rows of the table that are gone after the step
Removed == {r \in files : \A q \in files' : q.id # r.id}

\* the channel log after the deletion of exactly the message message_id
WithoutMessage(msgs, message_id) ==
    [n \in 1..Len(msgs) |->
        [msgs[n] EXCEPT !.deleted = msgs[n].deleted \/ msgs[n].message_id = message_id]]

\* C15 (state part): in the current table, /delete of a key by its owner
\* answers with success and leaves the table without the row, whether the
\* channel accepts the deletion of the message or not.
C15_OwnerDeletes ==
    \A u \in Owners, k \in Keys, ok \in BOOLEAN :
        OwnedRows(files, k, u) # {} =>
            LET res == delete_result(files, channel, u, <<k>>, TRUE, ok)
            IN  /\ res.text = "deleted"
                /\ res.files = files \ OwnedRows(files, k, u)
                /\ ~ok => res.channel = channel

\* C15 (step part): a step removes rows only as a successful /delete, and a
\* successful /delete removes exactly the row of the key, after which
\* retrieval by the key finds nothing and the owner's list has no such key;
\* the channel is asked to delete the message of the row's channel_ref, if
\* it had one, and nothing else on the channel changes.
C15_DeleteStep ==
    /\ reply' # reply /\ reply'.text = "deleted" => Removed # {}
    /\ Removed # {} =>
          LET k == reply'.key
              u == reply'.user
          IN  /\ reply'.text = "deleted"
              /\ Removed = OwnedRows(files, k, u)
              /\ files' = files \ Removed
              /\ key_result(files', channel', Characters(k), TRUE, TRUE).text = "key_not_found"
              /\ \A n \in 1..Len(list_result(files', channel', u, TRUE).shown) :
                    list_result(files', channel', u, TRUE).shown[n].key # k
              /\ \A r \in Removed : reply'.request = r.channel_msg_id
              /\ IF reply'.request = NULL
                 THEN channel' = channel
                 ELSE channel' \in {channel, WithoutMessage(channel, reply'.request)}

\* C15: deletion by the owner.
C15_Delete == []C15_OwnerDeletes /\ [][C15_DeleteStep]_vars

\* the owner deleted a key whose row had a channel_ref, the channel refused
\* to delete the message, and the row is gone
C15_Witness ==
    /\ reply.text = "deleted"
    /\ reply.request # NULL
    /\ RowsByKey(files, reply.key) = {}
    /\ \E n \in 1..Len(channel) : channel[n].message_id = reply.request /\ ~channel[n].deleted

\* the channel message of a deleted key was deleted and another message of
\* the channel was not
C15_OneMessageDeleted ==
    /\ reply.text = "deleted"
    /\ \E n, m \in 1..Len(channel) :
          /\ channel[n].message_id = reply.request
          /\ channel[n].deleted
          /\ ~channel[m].deleted

\* ================================================================= C16
QueryTexts == {"key_format_error", "key_not_found", "file_sent", "file_fetch_failed",
               "list_empty", "listed"}

\* C16 (state part): retrieval of the key of a stored row shows the note and
\* the items of that row, and a second retrieval in the table the first one
\* leaves shows the same.
C16_RetrievalShowsRow ==
    \A r \in files :
        LET first == key_result(files, channel, Characters(r.key), TRUE, TRUE)
            second == key_result(first.files, first.channel, Characters(r.key), TRUE, TRUE)
        IN  /\ first.text = "file_sent"
            /\ first.files = files
            /\ first.shown[1].note = r.custom_note
            /\ {first.shown[1].payload[n] : n \in 1..Len(first.shown[1].payload)}
                  = {Payload(r)[n] : n \in 1..Len(Payload(r))}
            /\ second.shown = first.shown

\* C16 (step part): a retrieval or a listing changes no row; a row that stays
\* in the table keeps its key, owner, type, payload and original name; its
\* note changes only in a successful /update of its key by its owner, which
\* changes nothing else in the table.
C16_NoteFrame ==
    /\ reply' # reply /\ reply'.text \in QueryTexts => files' = files
    /\ \A r1 \in files, r2 \in files' :
          r1.id = r2.id =>
              /\ r2.key = r1.key
              /\ r2.user_id = r1.user_id
              /\ r2.file_type = r1.file_type
              /\ r2.file_id = r1.file_id
              /\ r2.original_name = r1.original_name
              /\ r2.custom_note # r1.custom_note =>
                    /\ reply'.text = "updated"
                    /\ reply'.user = r1.user_id
                    /\ reply'.key = r1.key
                    /\ r2.channel_msg_id = r1.channel_msg_id
                    /\ files' \ {r2} = files \ {r1}

\* C16: retrieval and listing are read-only and rename changes the note only.
C16_ReadOnlyRetrieval == []C16_RetrievalShowsRow /\ [][C16_NoteFrame]_vars

\* user 2 retrieved a file that its owner had renamed while another row is
\* in the table with the note it was stored with
C16_Witness ==
    /\ reply.user = 2
    /\ reply.text = "file_sent"
    /\ reply.shown[1].note = "renamed"
    /\ \E r, q \in files :
          /\ r.key = reply.key
          /\ r.custom_note = "renamed"
          /\ q.id # r.id
          /\ q.custom_note # "renamed"

\* ================================================================= C17
\* the timers armed for an owner
TimersOf(u) == {j \in jobs : j.user_id = u}

\* the chats in which an owner has a pending buffer
BuffersOf(u) == {c \in Chats : chat_data[c][u] # <<>>}

\* C17 (timer part, which holds): an owner has at most one armed timer.
C17_OneTimer == \A u \in Owners : Cardinality(TimersOf(u)) <= 1

\* C17: an owner has at most one armed timer and at most one pending buffer.
C17_OneTimerOneBuffer ==
    \A u \in Owners :
        /\ Cardinality(TimersOf(u)) <= 1
        /\ Cardinality(BuffersOf(u)) <= 1

\* ================================================================= C18
\* the owners that act in the step: the sender of the upload handled, the
\* owner of the timer that fires, the owner of the callback that moves
Acting ==
    {u \in Owners :
        \/ Len(submitted') > Len(submitted) /\ submitted'[Len(submitted')].from_user = u
        \/ Len(tasks') > Len(tasks) /\ tasks'[Len(tasks')].user_id = u
        \/ \E i \in 1..Len(tasks) : tasks'[i] # tasks[i] /\ tasks[i].user_id = u}

\* a callback of owner u is suspended in a channel send
Suspended(u) == \E i \in 1..Len(tasks) : tasks[i].user_id = u /\ tasks[i].pc \in Sending

\* C18: a step of one owner (upload, timer firing, callback step) leaves the
\* pending buffers and the armed timer of every other owner as they are; an
\* upload of an owner handled while a callback of another owner is
\* suspended is appended to the uploader's buffer and arms the uploader's
\* timer.
C18_OwnersIndependent ==
    /\ \A a \in Acting : \A b \in Owners \ {a} :
          /\ \A c \in Chats : chat_data'[c][b] = chat_data[c][b]
          /\ {j \in jobs' : j.user_id = b} = {j \in jobs : j.user_id = b}
    /\ \A a \in Owners : \A b \in Owners \ {a} :
          Suspended(a) /\ Len(submitted') > Len(submitted)
                       /\ submitted'[Len(submitted')].from_user = b =>
              LET m == submitted'[Len(submitted')]
              IN  /\ chat_data'[m.chat][b] = Append(chat_data[m.chat][b], m)
                  /\ \E j \in jobs' : j.user_id = b /\ j.chat_id = m.chat /\ j.remaining = QUIET
                  /\ \A i \in 1..Len(tasks) : tasks'[i] = tasks[i]

C18_Independence == [][C18_OwnersIndependent]_vars

\* owner 2 has a pending upload and a freshly armed timer while the callback
\* of owner 1 is suspended in its channel send, owner 1's row being stored
C18_Witness ==
    /\ Suspended(1)
    /\ \E c \in Chats : chat_data[c][2] # <<>>
    /\ \E j \in jobs : j.user_id = 2 /\ j.remaining = QUIET
    /\ \E r \in files : r.user_id = 1

\* ================================================================= C19
\* C19 (timer part): while a callback is suspended in a channel send, the
\* uploads its owner sent since to the same chat are in the buffer the
\* callback left empty, and a timer is armed, or its callback dispatched,
\* that will detach that buffer.
C19_TimerKept ==
    \A i \in 1..Len(tasks) :
        tasks[i].pc \in Sending /\ chat_data[tasks[i].chat_id][tasks[i].user_id] # <<>> =>
            \/ \E j \in jobs : j.user_id = tasks[i].user_id /\ j.chat_id = tasks[i].chat_id
            \/ \E k \in 1..Len(tasks) : /\ tasks[k].pc = "start"
                                        /\ tasks[k].user_id = tasks[i].user_id
                                        /\ tasks[k].chat_id = tasks[i].chat_id

\* C19 (payload part): no upload is in the payload of two committed rows.
C19_NoSharedEvent ==
    \A a \in 1..Len(submitted) : Cardinality({n \in 1..Len(inserts) : Holds(n, a)}) <= 1

\* C19 (step part): an upload handled while a callback of its owner is
\* suspended goes to the end of the buffer of its chat and arms a timer with
\* the full quiet period; the callback keeps the messages it detached, and
\* the row it inserted keeps its payload.
C19_NotAdded ==
    /\ \A i \in 1..Len(tasks) :
          tasks[i].pc \in Sending =>
              /\ tasks'[i].messages = tasks[i].messages
              /\ tasks'[i].file_info_list = tasks[i].file_info_list
              /\ \A r1 \in files, r2 \in files' :
                    r1.id = tasks[i].db_file_id /\ r2.id = r1.id => r2.file_id = r1.file_id
    /\ Len(submitted') > Len(submitted) /\ Suspended(submitted'[Len(submitted')].from_user) =>
          LET m == submitted'[Len(submitted')]
          IN  /\ chat_data'[m.chat][m.from_user] = Append(chat_data[m.chat][m.from_user], m)
              /\ \E j \in jobs' : /\ j.user_id = m.from_user
                                    /\ j.chat_id = m.chat
                                    /\ j.remaining = QUIET

\* C19: uploads that arrive while an earlier burst of their owner is being
\* persisted or replicated.
C19_InflightUploads == [](C19_TimerKept /\ C19_NoSharedEvent) /\ [][C19_NotAdded]_vars

\* C19 without its timer part, which holds
C19_FreshBuffer == []C19_NoSharedEvent /\ [][C19_NotAdded]_vars

\* ================================================================= C20
\* C20 (state part): storage ids are handed out in increasing order, so no
\* id is given to two artifacts.
C20_IdsNotReused ==
    /\ \A n, m \in 1..Len(inserts) : n < m => inserts[n].id < inserts[m].id
    /\ \A n \in 1..Len(inserts) : inserts[n].id <= lastrowid

\* C20 (step part): a step of a callback that is in its channel send neither
\* adds nor removes a row, and changes at most channel_ref of the row that
\* holds the payload the callback inserted; when that row was deleted it
\* changes nothing in the table.
C20_WriteBackFrame ==
    \A i \in 1..Len(tasks) :
        tasks[i].pc \in Sending /\ tasks'[i] # tasks[i] =>
            /\ {r.id : r \in files'} = {r.id : r \in files}
            /\ \A r1 \in files, r2 \in files' :
                  r1.id = r2.id /\ r1 # r2 =>
                      /\ r1.id = tasks[i].db_file_id
                      /\ r1.key = tasks[i].key
                      /\ Payload(r1) = tasks[i].file_info_list
                      /\ r2 = [r1 EXCEPT !.channel_msg_id = r2.channel_msg_id]
            /\ (\A r \in files : Payload(r) # tasks[i].file_info_list) => files' = files

\* C20: the channel_ref write-back under interleaving with delete and with
\* other commits.
C20_WriteBack == []C20_IdsNotReused /\ [][C20_WriteBackFrame]_vars

\* the key of an artifact was deleted before its write-back (the deletion
\* found no channel_ref), the artifact went out to the channel afterwards,
\* and a row committed later is in the table
C20_Witness ==
    /\ reply.text = "deleted"
    /\ reply.request = NULL
    /\ \E i \in 1..Len(tasks) :
          /\ tasks[i].key = reply.key
          /\ tasks[i].outcome = "stored"
          /\ RowOf(tasks[i]) = {}
          /\ SentFor(channel, tasks[i].db_file_id) # <<>>
          /\ \E r \in files : r.id > tasks[i].db_file_id

====
